---- MODULE Spec2Model ----
(***************************************************************************)
(* Model of the aura-backend request pipeline:                             *)
(*   settings loading (app/core/config.py), construction of the shared     *)
(*   GeminiService (app/services/gemini_service.py), request validation    *)
(*   (app/models/idea_models.py, app/main.py) and the /generate-scope      *)
(*   handler (app/routers/idea_router.py).                                 *)
(*                                                                         *)
(* Strings that are only measured (idea, industry) are represented by      *)
(* their length; strings that are transformed (the generated text) are     *)
(* sequences of one-character strings; messages are sequences of           *)
(* fragments, so that "detail embeds message" is a subsequence test.       *)
(***************************************************************************)
EXTENDS Integers, Sequences, FiniteSets, TLC

\* ----------------------------------------------------------------------
\* Bounds of the model
\* ----------------------------------------------------------------------
NumRequests == 3
PoolSize == 2
MaxTextLen == 2

Requests == 1..NumRequests

\* ----------------------------------------------------------------------
\* Program constants (idea_models.py Field(...) bounds, HTTP statuses)
\* ----------------------------------------------------------------------
IdeaMinLen == 10
IdeaMaxLen == 1000
IndustryMinLen == 3
IndustryMaxLen == 100

HTTP_200_OK == 200
HTTP_400_BAD_REQUEST == 400
HTTP_422_UNPROCESSABLE_ENTITY == 422
HTTP_500_INTERNAL_SERVER_ERROR == 500
HTTP_503_SERVICE_UNAVAILABLE == 503

\* ----------------------------------------------------------------------
\* Values
\* ----------------------------------------------------------------------
NoneV == "None"
Handle == "GenerativeModel"

\* A request field: absent from the body, or a string of a given length.
Missing == [present |-> FALSE, len |-> 0]
Str(n) == [present |-> TRUE, len |-> n]

\* Request bodies the clients send: both boundaries of both fields, one
\* step outside each boundary, and each field missing.
Bodies ==
  { [idea |-> Str(10),   industry |-> Str(3)],
    [idea |-> Str(1000), industry |-> Str(100)],
    [idea |-> Str(9),    industry |-> Str(3)],
    [idea |-> Str(1001), industry |-> Str(100)],
    [idea |-> Str(10),   industry |-> Str(2)],
    [idea |-> Str(1000), industry |-> Str(101)],
    [idea |-> Missing,   industry |-> Str(3)],
    [idea |-> Str(9),    industry |-> Missing] }

NoBody == [idea |-> Missing, industry |-> Missing]

\* Characters of a generated text: one whitespace, one non-whitespace.
Chars == {" ", "a"}
IsSpace(c) == c \in {" ", "\t", "\n", "\r"}

RECURSIVE StrOfLen(_)
StrOfLen(n) ==
  IF n = 0 THEN { <<>> }
  ELSE { Append(s, c) : s \in StrOfLen(n - 1), c \in Chars }

Texts == UNION { StrOfLen(n) : n \in 0..MaxTextLen }

\* The environment variable GEMINI_API_KEY: unset, set to "", set to a key.
EnvKeys ==
  { [set |-> FALSE, value |-> <<>>],
    [set |-> TRUE,  value |-> <<>>],
    [set |-> TRUE,  value |-> <<"k">>] }

\* ----------------------------------------------------------------------
\* Exceptions: the class hierarchy that the except clauses dispatch on
\* ----------------------------------------------------------------------
Parent(t) ==
  CASE t = "ResourceExhausted"  -> "GoogleAPIError"
    [] t = "PermissionDenied"   -> "GoogleAPIError"
    [] t = "ServiceUnavailable" -> "GoogleAPIError"
    [] t = "GoogleAPIError"     -> "Exception"
    [] t = "UnicodeDecodeError" -> "ValueError"
    [] t = "ValueError"         -> "Exception"
    [] t = "ConnectionError"    -> "Exception"
    [] t = "ConnectionResetError" -> "ConnectionError"
    [] t = "KeyError"           -> "Exception"
    [] t = "AttributeError"     -> "Exception"
    [] t = "RuntimeError"       -> "Exception"
    [] t = "HTTPException"      -> "Exception"
    [] OTHER                    -> "Exception"

RECURSIVE IsInstance(_, _)
IsInstance(t, cls) ==
  IF t = cls THEN TRUE
  ELSE IF t = "Exception" THEN FALSE
  ELSE IsInstance(Parent(t), cls)

Exc(t, code, msg) == [type |-> t, code |-> code, message |-> msg]
NoExc == Exc("", "", <<>>)

\* str(e): google.api_core call errors print "<code> <message>", the
\* built-in exceptions print their message.
StrOfExc(e) ==
  IF IsInstance(e.type, "GoogleAPIError")
  THEN <<e.code, " ">> \o e.message
  ELSE e.message

\* Exceptions the blocking SDK call can raise.
ProviderErrors ==
  { Exc("ResourceExhausted", "429", <<"quota used up">>),
    Exc("PermissionDenied", "403", <<"key rejected">>),
    Exc("ServiceUnavailable", "503", <<"backend down">>),
    Exc("ServiceUnavailable", "503", <<>>) }

OtherErrors ==
  { Exc("ValueError", "", <<"invalid argument">>),
    Exc("UnicodeDecodeError", "", <<"invalid start byte">>),
    Exc("RuntimeError", "", <<"cannot schedule">>) }

\* ----------------------------------------------------------------------
\* Responses of the remote model
\* ----------------------------------------------------------------------
BlockReason(v, n) == [value |-> v, name |-> n]
BLOCK_REASON_UNSPECIFIED == BlockReason(0, "BLOCK_REASON_UNSPECIFIED")

BlockReasons ==
  { BLOCK_REASON_UNSPECIFIED, BlockReason(1, "SAFETY"), BlockReason(2, "OTHER") }

NoFeedback == [present |-> FALSE, block_reason |-> BLOCK_REASON_UNSPECIFIED]
Feedbacks ==
  { NoFeedback } \cup { [present |-> TRUE, block_reason |-> b] : b \in BlockReasons }

\* has_text: response.text.strip() yields a string (text); otherwise
\* text_error is what evaluating it raises.
GeminiResponse(n, f, h, t) ==
  [candidates |-> n, prompt_feedback |-> f, has_text |-> h, text |-> t,
   text_error |-> IF h THEN NoExc
                  ELSE Exc("AttributeError", "", <<"object has no attribute 'text'">>)]

\* A candidate whose text accessor raises: the SDK raises ValueError when
\* the candidate holds no valid part.
TextRaises(e) ==
  [GeminiResponse(1, NoFeedback, FALSE, <<>>) EXCEPT !.text_error = e]
NoResponse == GeminiResponse(0, NoFeedback, FALSE, <<>>)

GeminiResponses ==
  { GeminiResponse(0, f, FALSE, <<>>) : f \in Feedbacks }
  \cup { GeminiResponse(1, NoFeedback, TRUE, t) : t \in Texts }
  \cup { GeminiResponse(1, NoFeedback, FALSE, <<>>) }
  \cup { TextRaises(Exc("ValueError", "", <<"response.text requires a valid Part">>)) }

\* What self.model.generate_content does when it finishes: it returns a
\* response or raises.
Returned(resp) == [kind |-> "return", response |-> resp, exc |-> NoExc]
Raised(e) == [kind |-> "raise", response |-> NoResponse, exc |-> e]
NoOutcome == [kind |-> "none", response |-> NoResponse, exc |-> NoExc]

RemoteOutcomes ==
  { Returned(resp) : resp \in GeminiResponses }
  \cup { Raised(e) : e \in ProviderErrors \cup OtherErrors }

\* ----------------------------------------------------------------------
\* Request validation (IdeaInput, validation_exception_handler)
\* ----------------------------------------------------------------------
ErrorDetail(loc, msg, type) == [loc |-> loc, msg |-> msg, type |-> type]

FieldErrors_nomax(name, f, lo, hi) ==
  IF ~f.present
  THEN << ErrorDetail(<<"body", name>>, "Field required", "missing") >>
  ELSE IF f.len < lo
  THEN << ErrorDetail(<<"body", name>>, "String too short", "string_too_short") >>
  ELSE <<>>

\* Field(..., min_length=lo, max_length=hi) of a required str field.
FieldErrors(name, f, lo, hi) ==
  IF ~f.present
  THEN << ErrorDetail(<<"body", name>>, "Field required", "missing") >>
  ELSE IF f.len < lo
  THEN << ErrorDetail(<<"body", name>>, "String too short", "string_too_short") >>
  ELSE IF f.len > hi
  THEN << ErrorDetail(<<"body", name>>, "String too long", "string_too_long") >>
  ELSE <<>>

\* exc.errors() for a body validated against IdeaInput, in field order.
ValidationErrors(body) ==
  FieldErrors("idea", body.idea, IdeaMinLen, IdeaMaxLen)
  \o FieldErrors("industry", body.industry, IndustryMinLen, IndustryMaxLen)

\* ----------------------------------------------------------------------
\* HTTP responses
\* ----------------------------------------------------------------------
HttpResponse(status, detail, errors, scope) ==
  [status |-> status, detail |-> detail, errors |-> errors, generated_scope |-> scope]
NoHttpResponse == HttpResponse(0, <<>>, <<>>, <<>>)

GenericDetail ==
  << "An unexpected internal server error occurred. The technical team has been notified." >>
MeaninglessDetail ==
  << "AI service (Gemini) failed to generate meaningful content." >>

validation_exception_handler(errors) ==
  HttpResponse(HTTP_422_UNPROCESSABLE_ENTITY, <<>>, errors, <<>>)

\* ----------------------------------------------------------------------
\* GeminiService: pure parts
\* ----------------------------------------------------------------------
RECURSIVE LStrip(_)
LStrip(s) ==
  IF s # <<>> /\ IsSpace(Head(s)) THEN LStrip(Tail(s)) ELSE s

RECURSIVE RStrip(_)
RStrip(s) ==
  IF s # <<>> /\ IsSpace(s[Len(s)]) THEN RStrip(SubSeq(s, 1, Len(s) - 1)) ELSE s

Strip_lstrip(s) == LStrip(s)

Strip_identity(s) == s

\* str.strip()
Strip(s) == RStrip(LStrip(s))

Return(t) == [kind |-> "return", text |-> t, exc |-> NoExc]
Raise(e) == [kind |-> "raise", text |-> <<>>, exc |-> e]
NoResult == [kind |-> "none", text |-> <<>>, exc |-> NoExc]

NotConfiguredMsg ==
  << "Gemini AI service is not properly configured. Please check API key and server logs." >>
BlockedGenericMsg == << "Content generation blocked by AI provider." >>
EmptyResponseMsg == << "AI service returned an empty response." >>
MalformedMsg == << "AI service returned a malformed response." >>

BlockReasonMsg_noname(f) == BlockedGenericMsg

BlockReasonMsg(f) ==
  IF f.present /\ f.block_reason.value # 0
  THEN << "Content generation blocked due to safety policy: ",
          f.block_reason.name,
          ". Consider revising the input idea or industry if it might violate content policies." >>
  ELSE BlockedGenericMsg

_process_gemini_response_nocatch(response) ==
  IF response.candidates = 0
  THEN Raise(Exc("ValueError", "", BlockReasonMsg(response.prompt_feedback)))
  ELSE IF ~response.has_text
  THEN Raise(response.text_error)
  ELSE LET generated_text == Strip(response.text) IN
       IF generated_text = <<>>
       THEN Raise(Exc("ValueError", "", EmptyResponseMsg))
       ELSE Return(generated_text)

_process_gemini_response(response) ==
  IF response.candidates = 0
  THEN Raise(Exc("ValueError", "", BlockReasonMsg(response.prompt_feedback)))
  ELSE IF ~response.has_text
  THEN IF IsInstance(response.text_error.type, "AttributeError")
       THEN Raise(Exc("ValueError", "", MalformedMsg))
       ELSE Raise(response.text_error)
  ELSE LET generated_text == Strip(response.text) IN
       IF generated_text = <<>>
       THEN Raise(Exc("ValueError", "", EmptyResponseMsg))
       ELSE Return(generated_text)

ConnectionError(msg) == Exc("ConnectionError", "", msg)

ExceptClauses_dropmsg(e) ==
  IF IsInstance(e.type, "GoogleAPIError")
  THEN Raise(ConnectionError(<< "An error occurred with the Gemini API." >>))
  ELSE IF IsInstance(e.type, "ValueError")
  THEN Raise(e)
  ELSE Raise(ConnectionError(
         << "An unexpected internal error occurred while contacting the Gemini service: " >>
         \o StrOfExc(e)))

\* The except clauses of generate_startup_scope, in source order.
ExceptClauses(e) ==
  IF IsInstance(e.type, "ResourceExhausted")
  THEN Raise(ConnectionError(
         << "Gemini API quota exceeded. Please check your Google Cloud project billing and limits. Details: " >>
         \o e.message))
  ELSE IF IsInstance(e.type, "PermissionDenied")
  THEN Raise(ConnectionError(
         << "Gemini API permission denied. Ensure API key is valid and has Vertex AI permissions. Details: " >>
         \o e.message))
  ELSE IF IsInstance(e.type, "GoogleAPIError")
  THEN Raise(ConnectionError(
         << "An error occurred with the Gemini API: " >>
         \o (IF e.message # <<>> THEN e.message ELSE StrOfExc(e))))
  ELSE IF IsInstance(e.type, "ValueError")
  THEN Raise(e)
  ELSE Raise(ConnectionError(
         << "An unexpected internal error occurred while contacting the Gemini service: " >>
         \o StrOfExc(e)))

\* The try block of generate_startup_scope once the worker thread has
\* finished with the given outcome.
AfterCall(outcome) ==
  LET r == IF outcome.kind = "return"
           THEN _process_gemini_response(outcome.response)
           ELSE Raise(outcome.exc)
  IN IF r.kind = "return" THEN r ELSE ExceptClauses(r.exc)

Operational_always(m) == TRUE

\* "if not self.model" negated
Operational(m) == m # NoneV

\* ----------------------------------------------------------------------
\* The router: try/except of generate_scope_endpoint
\* ----------------------------------------------------------------------
HandlerExcept_400as500(e) ==
  IF IsInstance(e.type, "ConnectionError")
  THEN HttpResponse(HTTP_503_SERVICE_UNAVAILABLE, StrOfExc(e), <<>>, <<>>)
  ELSE HttpResponse(HTTP_500_INTERNAL_SERVER_ERROR, GenericDetail, <<>>, <<>>)

HandlerExcept_leak(e) ==
  IF IsInstance(e.type, "ConnectionError")
  THEN HttpResponse(HTTP_503_SERVICE_UNAVAILABLE, StrOfExc(e), <<>>, <<>>)
  ELSE IF IsInstance(e.type, "ValueError")
  THEN HttpResponse(HTTP_400_BAD_REQUEST, StrOfExc(e), <<>>, <<>>)
  ELSE IF IsInstance(e.type, "HTTPException")
  THEN HttpResponse(HTTP_500_INTERNAL_SERVER_ERROR, GenericDetail, <<>>, <<>>)
  ELSE HttpResponse(HTTP_500_INTERNAL_SERVER_ERROR,
                    << "Internal error: " >> \o StrOfExc(e), <<>>, <<>>)

HandlerExcept_reraiseHTTP(e) ==
  IF IsInstance(e.type, "ConnectionError")
  THEN HttpResponse(HTTP_503_SERVICE_UNAVAILABLE, StrOfExc(e), <<>>, <<>>)
  ELSE IF IsInstance(e.type, "ValueError")
  THEN HttpResponse(HTTP_400_BAD_REQUEST, StrOfExc(e), <<>>, <<>>)
  ELSE IF IsInstance(e.type, "HTTPException")
  THEN HttpResponse(HTTP_500_INTERNAL_SERVER_ERROR, e.message, <<>>, <<>>)
  ELSE HttpResponse(HTTP_500_INTERNAL_SERVER_ERROR, GenericDetail, <<>>, <<>>)

HandlerExcept(e) ==
  IF IsInstance(e.type, "ConnectionError")
  THEN HttpResponse(HTTP_503_SERVICE_UNAVAILABLE, StrOfExc(e), <<>>, <<>>)
  ELSE IF IsInstance(e.type, "ValueError")
  THEN HttpResponse(HTTP_400_BAD_REQUEST, StrOfExc(e), <<>>, <<>>)
  ELSE HttpResponse(HTTP_500_INTERNAL_SERVER_ERROR, GenericDetail, <<>>, <<>>)

\* What the endpoint answers once generate_startup_scope has returned or
\* raised.
HandlerResult(result) ==
  IF result.kind = "raise"
  THEN HandlerExcept(result.exc)
  ELSE IF result.text = <<>> \/ Strip(result.text) = <<>>
  THEN HandlerExcept(Exc("HTTPException", "500", MeaninglessDetail))
  ELSE HttpResponse(HTTP_200_OK, <<>>, <<>>, result.text)

\* ----------------------------------------------------------------------
\* The prompt
\* ----------------------------------------------------------------------
Lit(t) == [kind |-> "lit", text |-> t, value |-> Missing]
Val(f) == [kind |-> "val", text |-> "", value |-> f]

SectionHeaders ==
  << "## 1. Executive Summary",
     "## 2. Problem Statement & Proposed Solution",
     "## 3. Target Audience & User Personas",
     "## 4. Core MVP Features (Prioritized)",
     "## 5. Key User Stories (for P0 Features)",
     "## 6. Technology Stack Recommendation (High-Level)",
     "## 7. Monetization Strategy (Initial Thoughts)",
     "## 8. MVP Development Timeline (Estimated Phases)",
     "## 9. Key Metrics for Success (KPIs for MVP)",
     "## 10. Potential Risks & Mitigation Strategies" >>

\* The text the template puts under each header.
SectionBodies ==
  << "   - A concise overview of the product, its core value proposition, and target audience.\n\n",
     "   - Clearly define the problem this startup aims to solve.\n   - Describe how the proposed MVP addresses this problem.\n\n",
     "   - Identify the primary target users.\n   - Briefly describe 1-2 key user personas (e.g., name, role, goals, pain points relevant to the product).\n\n",
     "   - List the essential features required for the MVP.\n   - For each feature, provide a brief description.\n   - Prioritize features using a simple scheme (e.g., P0 - Must-have, P1 - Should-have for V1, P2 - Nice-to-have/Future).\n\n",
     "   - Write 3-5 key user stories for the P0 (Must-have) features in the format: \"As a [user type/persona], I want to [perform an action] so that I can [achieve a benefit].\"\n\n",
     "   - Suggest a suitable technology stack for the MVP (e.g., Frontend, Backend, Database, Key Cloud Services/APIs).\n   - Briefly justify choices if specific (e.g., 'Python/FastAPI for rapid backend development').\n\n",
     "   - Outline 1-2 potential revenue models for the product (e.g., subscription, freemium, one-time purchase, transactional fees).\n\n",
     "   - Provide a high-level estimated timeline for MVP development, broken into logical phases or sprints (e.g., Phase 1 (4-6 weeks): Core Feature X, Y; User Authentication).\n\n",
     "   - Define 3-5 measurable Key Performance Indicators (KPIs) to evaluate the MVP's success post-launch (e.g., user acquisition rate, daily active users, conversion rate for a key action, user retention rate).\n\n",
     "    - Identify 2-3 significant potential risks for the MVP (technical, market, operational).\n    - Suggest a brief mitigation strategy for each identified risk.\n\n" >>

RECURSIVE Sections(_)
Sections(k) ==
  IF k = 0 THEN <<>>
  ELSE Sections(k - 1) \o << Lit(SectionHeaders[k]), Lit(SectionBodies[k]) >>

\* The f-string of _construct_prompt with its two placeholders filled.
Template(industry_part, idea_part) ==
  << Lit("You are an expert startup consultant and product manager. Generate a comprehensive, actionable, and professionally formatted MVP (Minimum Viable Product) scope document for the following startup idea:\n\n"),
     Lit("**Industry:** "), industry_part, Lit("\n"),
     Lit("**Core Idea:** "), idea_part, Lit("\n\n"),
     Lit("**Instructions for the Scope Document:**\nPlease structure the document with clear, distinct sections. Use markdown-style formatting for headers (e.g., ## Section Title) and bullet points where appropriate.\n\n"),
     Lit("**Include the following sections in detail:**\n\n") >>
  \o Sections(Len(SectionHeaders))
  \o << Lit("Ensure the output is well-organized, easy to read, and provides practical, actionable insights.") >>

_construct_prompt_truncated(idea_data) ==
  Template(Val(idea_data.industry),
           Val(IF idea_data.idea.len > 70 THEN Str(70) ELSE idea_data.idea))

_construct_prompt(idea_data) ==
  Template(Val(idea_data.industry), Val(idea_data.idea))

NoPrompt == <<>>

\* ----------------------------------------------------------------------
\* The options passed with the prompt
\* ----------------------------------------------------------------------
HarmCategories ==
  { "HARM_CATEGORY_HARASSMENT", "HARM_CATEGORY_HATE_SPEECH",
    "HARM_CATEGORY_SEXUALLY_EXPLICIT", "HARM_CATEGORY_DANGEROUS_CONTENT" }

\* temperature and top_p are decimal fractions, kept as written.
_get_generation_config ==
  [temperature |-> "0.6", top_p |-> "0.95", top_k |-> 40,
   max_output_tokens |-> 4096, candidate_count |-> 1]

_get_safety_settings ==
  [c \in HarmCategories |-> "BLOCK_MEDIUM_AND_ABOVE"]

CallArgs(gc, ss) == [set |-> TRUE, generation_config |-> gc, safety_settings |-> ss]
NoArgs ==
  [set |-> FALSE, generation_config |-> _get_generation_config,
   safety_settings |-> _get_safety_settings]

\* ----------------------------------------------------------------------
\* State
\* ----------------------------------------------------------------------
VARIABLES
  envKey,   \* GEMINI_API_KEY in the process environment
  phase,    \* "boot", "configured", "constructed", "serving", "crashed"
  apiKey,   \* settings.GEMINI_API_KEY
  model,    \* gemini_service.model
  pc,       \* per request: "idle", "queued", "running", "done"
  input,    \* per request in flight: idea_input
  prompt,   \* per request in flight: the prompt built for it
  args,     \* per request in flight: generation_config and safety_settings
  calls,    \* per request: number of generate_content calls started
  sent      \* the exchange completed last: the request, what was done
            \* for it and the HTTP response written to its client

vars == << envKey, phase, apiKey, model, pc, input, prompt, args, calls, sent >>

running == { r \in Requests : pc[r] = "running" }

\* result is what generate_startup_scope returned or raised to the endpoint.
Exchange(r, body, p, n, outcome, result, response) ==
  [req |-> r, body |-> body, prompt |-> p, calls |-> n,
   outcome |-> outcome, result |-> result, response |-> response]
NoExchange == Exchange(0, NoBody, NoPrompt, 0, NoOutcome, NoResult, NoHttpResponse)

Init ==
  /\ envKey \in EnvKeys
  /\ phase = "boot"
  /\ apiKey = <<>>
  /\ model = NoneV
  /\ pc = [r \in Requests |-> "idle"]
  /\ input = [r \in Requests |-> NoBody]
  /\ prompt = [r \in Requests |-> NoPrompt]
  /\ args = [r \in Requests |-> NoArgs]
  /\ calls = [r \in Requests |-> 0]
  /\ sent = NoExchange

\* ----------------------------------------------------------------------
\* Start-up
\* ----------------------------------------------------------------------
SettingsValid_optional(env) == TRUE

\* GEMINI_API_KEY: str  -- required, any string (the empty one too) passes
SettingsValid(env) == env.set

\* config.py: settings = Settings(); a validation error is re-raised as
\* ValueError and the import of app.main fails.
LoadSettings ==
  /\ phase = "boot"
  /\ IF SettingsValid(envKey)
     THEN /\ apiKey' = envKey.value
          /\ phase' = "configured"
     ELSE /\ phase' = "crashed"
          /\ UNCHANGED apiKey
  /\ UNCHANGED << envKey, model, pc, input, prompt, args, calls, sent >>

\* gemini_service = GeminiService()
ConstructService ==
  /\ phase = "configured"
  /\ IF apiKey = <<>>
     THEN model' = NoneV
     ELSE \E ok \in BOOLEAN : model' = IF ok THEN Handle ELSE NoneV
  /\ phase' = "constructed"
  /\ UNCHANGED << envKey, apiKey, pc, input, prompt, args, calls, sent >>

\* app = FastAPI(...), handlers and routers registered
StartApp ==
  /\ phase = "constructed"
  /\ phase' = "serving"
  /\ UNCHANGED << envKey, apiKey, model, pc, input, prompt, args, calls, sent >>

\* ----------------------------------------------------------------------
\* Requests
\* ----------------------------------------------------------------------
\* The response is written to the client and the request's objects are
\* dropped; nothing of the exchange stays in the process.
Answer(r, body, p, outcome, result, response) ==
  /\ pc' = [pc EXCEPT ![r] = "done"]
  /\ input' = [input EXCEPT ![r] = NoBody]
  /\ prompt' = [prompt EXCEPT ![r] = NoPrompt]
  /\ args' = [args EXCEPT ![r] = NoArgs]
  /\ sent' = Exchange(r, body, p, calls[r], outcome, result, response)

\* POST /generate-scope arrives: body validation, then the endpoint up to
\* its await of asyncio.to_thread.
Receive(r, body) ==
  /\ phase = "serving"
  /\ pc[r] = "idle"
  /\ LET errors == ValidationErrors(body) IN
     IF errors # <<>>
     THEN Answer(r, body, NoPrompt, NoOutcome, NoResult,
                 validation_exception_handler(errors))
     ELSE IF ~Operational(model)
     THEN Answer(r, body, NoPrompt, NoOutcome,
                 Raise(ConnectionError(NotConfiguredMsg)),
                 HandlerResult(Raise(ConnectionError(NotConfiguredMsg))))
     ELSE /\ input' = [input EXCEPT ![r] = body]
          /\ prompt' = [prompt EXCEPT ![r] = _construct_prompt(body)]
          /\ args' = [args EXCEPT ![r] =
                        CallArgs(_get_generation_config, _get_safety_settings)]
          /\ pc' = [pc EXCEPT ![r] = "queued"]
          /\ UNCHANGED sent
  /\ UNCHANGED << envKey, phase, apiKey, model, calls >>

WorkerAvailable_inline == running = {}

\* asyncio.to_thread submits to the loop's default ThreadPoolExecutor; a
\* submitted call starts when one of its workers is free.
WorkerAvailable == Cardinality(running) < PoolSize

\* A worker thread starts self.model.generate_content(prompt, ...).
StartCall(r) ==
  /\ pc[r] = "queued"
  /\ WorkerAvailable
  /\ pc' = [pc EXCEPT ![r] = "running"]
  /\ calls' = [calls EXCEPT ![r] = calls[r] + 1]
  /\ UNCHANGED << envKey, phase, apiKey, model, input, prompt, args, sent >>

Complete_retry(r, outcome) ==
  /\ pc[r] = "running"
  /\ IF AfterCall(outcome).kind = "raise" /\ calls[r] < 2
     THEN /\ pc' = [pc EXCEPT ![r] = "queued"]
          /\ UNCHANGED << input, prompt, args, sent >>
     ELSE Answer(r, input[r], prompt[r], outcome, AfterCall(outcome),
            HandlerResult(AfterCall(outcome)))
  /\ UNCHANGED << envKey, phase, apiKey, model, calls >>

Complete_dropsHandle(r, outcome) ==
  /\ pc[r] = "running"
  /\ Answer(r, input[r], prompt[r], outcome, AfterCall(outcome),
            HandlerResult(AfterCall(outcome)))
  /\ model' = IF outcome.kind = "raise" /\ outcome.exc.type = "PermissionDenied"
              THEN NoneV ELSE model
  /\ UNCHANGED << envKey, phase, apiKey, calls >>

\* generate_content finishes; the endpoint resumes, interprets the outcome
\* and answers.
Complete(r, outcome) ==
  /\ pc[r] = "running"
  /\ Answer(r, input[r], prompt[r], outcome, AfterCall(outcome),
            HandlerResult(AfterCall(outcome)))
  /\ UNCHANGED << envKey, phase, apiKey, model, calls >>

Next ==
  \/ LoadSettings
  \/ ConstructService
  \/ StartApp
  \/ \E r \in Requests, body \in Bodies : Receive(r, body)
  \/ \E r \in Requests : StartCall(r)
  \/ \E r \in Requests, outcome \in RemoteOutcomes : Complete(r, outcome)

Spec == Init /\ [][Next]_vars

\* ----------------------------------------------------------------------
\* The endpoint over a stubbed generation client: generate_startup_scope is
\* replaced by a stub that returns any text or raises any exception, which
\* exercises the branches of the endpoint the real client never takes.
\* ----------------------------------------------------------------------
StubErrors ==
  { Exc("ConnectionError", "", <<"stub unavailable">>),
    Exc("ConnectionResetError", "", <<"stub reset">>),
    Exc("ValueError", "", <<"stub rejected">>),
    Exc("RuntimeError", "", <<"stub internal state">>),
    Exc("KeyError", "", <<"stub key">>) }

StubResults ==
  { Return(t) : t \in Texts } \cup { Raise(e) : e \in StubErrors }

StubReceive(r, body, result) ==
  /\ phase = "serving"
  /\ pc[r] = "idle"
  /\ ValidationErrors(body) = <<>>
  /\ Answer(r, body, NoPrompt, NoOutcome, result, HandlerResult(result))
  /\ UNCHANGED << envKey, phase, apiKey, model, calls >>

NextStub ==
  \/ Next
  \/ \E r \in Requests, body \in Bodies, result \in StubResults :
       StubReceive(r, body, result)

SpecStub == Init /\ [][NextStub]_vars

\* ----------------------------------------------------------------------
\* Vocabulary of the properties
\* ----------------------------------------------------------------------
Answered == sent.req # 0

\* The message m occurs in the detail d.
Contains(d, m) ==
  \E i \in 0..(Len(d) - Len(m)) : SubSeq(d, i + 1, i + Len(m)) = m

AllSpace(t) == \A k \in 1..Len(t) : t[k] = " "

\* s is t without its leading and trailing whitespace.
IsTrimOf(s, t) ==
  \E i \in 0..Len(t), j \in 0..Len(t) :
    /\ i + j <= Len(t)
    /\ s = SubSeq(t, i + 1, Len(t) - j)
    /\ \A k \in 1..i : t[k] = " "
    /\ \A k \in (Len(t) - j + 1)..Len(t) : t[k] = " "
    /\ s # <<>> => (s[1] # " " /\ s[Len(s)] # " ")

OutOfBounds(body) ==
  \/ ~body.idea.present
  \/ ~body.industry.present
  \/ body.idea.len < 10
  \/ body.idea.len > 1000
  \/ body.industry.len < 3
  \/ body.industry.len > 100

ReturnedText ==
  /\ Answered
  /\ sent.outcome.kind = "return"
  /\ sent.outcome.response.candidates >= 1
  /\ sent.outcome.response.has_text

\* ----------------------------------------------------------------------
\* C1: a request whose idea is shorter than 10 or longer than 1000, or whose
\* industry is shorter than 3 or longer than 100, or that lacks one of the
\* two fields, is answered 422 with the violated fields listed, and neither
\* a prompt nor a generate_content call is ever made for it.
\* ----------------------------------------------------------------------
C1_InvalidInputRejected ==
  /\ \A r \in Requests : pc[r] \in {"queued", "running"} => ~OutOfBounds(input[r])
  /\ (Answered /\ OutOfBounds(sent.body)) =>
       /\ sent.response.status = 422
       /\ sent.response.errors # <<>>
       /\ sent.calls = 0
       /\ sent.prompt = NoPrompt
       /\ sent.outcome = NoOutcome

C1_Witness ==
  /\ Answered
  /\ sent.body.idea.present
  /\ sent.body.idea.len > 1000
  /\ sent.response.status = 422

\* ----------------------------------------------------------------------
\* C2: when generate_content returns a candidate whose text is not all
\* whitespace, the answer is 200 and generated_scope is that text without
\* its leading and trailing whitespace.
\* ----------------------------------------------------------------------
C2_SuccessIsTrimmedText ==
  (ReturnedText /\ ~AllSpace(sent.outcome.response.text)) =>
    /\ sent.response.status = 200
    /\ IsTrimOf(sent.response.generated_scope, sent.outcome.response.text)

C2_Witness ==
  /\ ReturnedText
  /\ sent.response.status = 200
  /\ sent.outcome.response.text = <<"a", " ">>
  /\ sent.response.generated_scope = <<"a">>

\* ----------------------------------------------------------------------
\* C3: a 200 answer carries a generated_scope that is not empty and not all
\* whitespace; a candidate whose text is empty or all whitespace is answered
\* 400 or 500.
\* ----------------------------------------------------------------------
C3_NoEmpty200 ==
  /\ (Answered /\ sent.response.status = 200) =>
       ~AllSpace(sent.response.generated_scope)
  /\ (ReturnedText /\ AllSpace(sent.outcome.response.text)) =>
       sent.response.status \in {400, 500}

C3_Witness ==
  /\ ReturnedText
  /\ sent.outcome.response.text = <<" ">>
  /\ sent.response.status = 400

\* ----------------------------------------------------------------------
\* C4: when generate_content returns no candidate, the answer is 400; its
\* detail names the block reason when the response carries one and is the
\* generic blocked message otherwise.
\* ----------------------------------------------------------------------
C4_ZeroCandidatesRejected ==
  (Answered /\ sent.outcome.kind = "return" /\ sent.outcome.response.candidates = 0) =>
    LET f == sent.outcome.response.prompt_feedback IN
    /\ sent.response.status = 400
    /\ IF f.present /\ f.block_reason # BLOCK_REASON_UNSPECIFIED
       THEN Contains(sent.response.detail, << f.block_reason.name >>)
       ELSE sent.response.detail = << "Content generation blocked by AI provider." >>

C4_Witness ==
  /\ Answered
  /\ sent.outcome.kind = "return"
  /\ sent.outcome.response.candidates = 0
  /\ sent.outcome.response.prompt_feedback.present
  /\ sent.outcome.response.prompt_feedback.block_reason.name = "SAFETY"
  /\ sent.response.status = 400

\* ----------------------------------------------------------------------
\* C5: when generate_content raises a provider error (quota, permission or
\* any other API error), the answer is 503 and its detail contains the
\* provider's message.
\* ----------------------------------------------------------------------
ProviderErrorTypes == {"ResourceExhausted", "PermissionDenied", "ServiceUnavailable"}

C5_ProviderErrorUnavailable ==
  (Answered /\ sent.outcome.kind = "raise"
            /\ sent.outcome.exc.type \in ProviderErrorTypes) =>
    /\ sent.response.status = 503
    /\ Contains(sent.response.detail, sent.outcome.exc.message)

C5_Witness ==
  /\ Answered
  /\ sent.outcome.kind = "raise"
  /\ sent.outcome.exc.type = "ServiceUnavailable"
  /\ sent.outcome.exc.message # <<>>
  /\ sent.response.status = 503

\* ----------------------------------------------------------------------
\* C6: when generate_content raises anything that is not a provider error,
\* ValueError and its subclasses included, the answer is 503 and its detail
\* contains the original message.
\* ----------------------------------------------------------------------
C6_UnexpectedErrorUnavailable ==
  (Answered /\ sent.outcome.kind = "raise"
            /\ sent.outcome.exc.type \notin ProviderErrorTypes) =>
    /\ sent.response.status = 503
    /\ Contains(sent.response.detail, sent.outcome.exc.message)

\* ----------------------------------------------------------------------
\* C7: once the service has been constructed without a model handle, the
\* handle stays absent, no request reaches the worker pool, and every valid
\* request is answered 503 "not properly configured" with no prompt built
\* and no generate_content call made.
\* ----------------------------------------------------------------------
C7_NonOperationalFailsFast ==
  [][ (phase \in {"constructed", "serving"} /\ model = NoneV) =>
        /\ model' = NoneV
        /\ \A r \in Requests :
             /\ pc'[r] \in {"idle", "done"}
             /\ (pc[r] = "idle" /\ pc'[r] = "done" /\ ~OutOfBounds(sent'.body)) =>
                  /\ sent'.req = r
                  /\ sent'.response.status = 503
                  /\ sent'.response.detail =
                       << "Gemini AI service is not properly configured. Please check API key and server logs." >>
                  /\ sent'.calls = 0
                  /\ sent'.prompt = NoPrompt
                  /\ sent'.outcome = NoOutcome ]_vars

C7_Witness ==
  /\ phase = "serving"
  /\ model = NoneV
  /\ apiKey # <<>>
  /\ Answered
  /\ ~OutOfBounds(sent.body)
  /\ sent.response.status = 503
  /\ sent.calls = 0

C9_SingleAttempt ==
  /\ \A r \in Requests : calls[r] <= 1
  /\ \A r \in Requests : pc[r] \in {"idle", "queued"} => calls[r] = 0
  /\ Answered => sent.calls <= 1

C9_Witness ==
  /\ Answered
  /\ sent.outcome.kind = "raise"
  /\ sent.response.status = 503
  /\ sent.calls = 1
  /\ calls[sent.req] = 1
  /\ pc[sent.req] = "done"

\* ----------------------------------------------------------------------
\* C10: whatever the other requests are doing, a request waiting for its
\* generate_content call can start it, and a request whose call is running
\* can receive its response.
\* ----------------------------------------------------------------------
C10_NeverBlocked ==
  \A r \in Requests :
    /\ pc[r] = "queued" => ENABLED StartCall(r)
    /\ pc[r] = "running" => ENABLED (\E outcome \in RemoteOutcomes : Complete(r, outcome))

\* C10 as amended: while fewer calls are running than the executor has
\* workers, a waiting request can start its call; a running call can always
\* end and be answered; and a request can always be received and validated,
\* however many calls are running or stuck.
C10_NotBlockedWhileWorkerFree ==
  \A r \in Requests :
    /\ (pc[r] = "queued" /\ Cardinality({ q \in Requests : pc[q] = "running" }) < PoolSize)
         => ENABLED StartCall(r)
    /\ pc[r] = "running" => ENABLED (\E outcome \in RemoteOutcomes : Complete(r, outcome))
    /\ (pc[r] = "idle" /\ phase = "serving") => ENABLED (\E body \in Bodies : Receive(r, body))

C10_Witness ==
  \E r, q \in Requests :
    /\ r # q
    /\ pc[r] = "running"
    /\ pc[q] = "done"
    /\ sent.req = q
    /\ sent.calls = 1
    /\ sent.response.status = 200

\* ----------------------------------------------------------------------
\* C11: every 500 answer carries the one generic detail; an exception that
\* is neither a ConnectionError nor a ValueError and reaches the endpoint's
\* except clauses is answered 500 with that detail, whatever its message.
\* ----------------------------------------------------------------------
C11_Generic500 ==
  /\ (Answered /\ sent.response.status = 500) =>
       sent.response.detail =
         << "An unexpected internal server error occurred. The technical team has been notified." >>
  /\ (Answered /\ sent.result.kind = "raise"
               /\ sent.result.exc.type \notin
                    {"ConnectionError", "ConnectionResetError", "ValueError", "UnicodeDecodeError"}) =>
       /\ sent.response.status = 500
       /\ ~Contains(sent.response.detail, sent.result.exc.message)

C11_Witness ==
  /\ Answered
  /\ sent.result.kind = "raise"
  /\ sent.result.exc.type = "RuntimeError"
  /\ sent.result.exc.message # <<>>
  /\ sent.response.status = 500

\* ----------------------------------------------------------------------
\* C12: the prompt built for a valid body holds the industry and the idea
\* exactly as sent and nothing else from outside the template, holds each
\* of the ten numbered section headers once and in order, and is the same
\* for the same body.
\* ----------------------------------------------------------------------
TenHeaders ==
  << "## 1. Executive Summary",
     "## 2. Problem Statement & Proposed Solution",
     "## 3. Target Audience & User Personas",
     "## 4. Core MVP Features (Prioritized)",
     "## 5. Key User Stories (for P0 Features)",
     "## 6. Technology Stack Recommendation (High-Level)",
     "## 7. Monetization Strategy (Initial Thoughts)",
     "## 8. MVP Development Timeline (Estimated Phases)",
     "## 9. Key Metrics for Success (KPIs for MVP)",
     "## 10. Potential Risks & Mitigation Strategies" >>

Positions(p, part) == { i \in 1..Len(p) : p[i] = part }
Position(p, part) == CHOOSE i \in Positions(p, part) : TRUE

PromptCarries(p, body) ==
  /\ Cardinality(Positions(p, [kind |-> "val", text |-> "", value |-> body.idea])) = 1
  /\ Cardinality(Positions(p, [kind |-> "val", text |-> "", value |-> body.industry])) = 1
  /\ \A i \in 1..Len(p) : p[i].kind = "val" => p[i].value \in {body.idea, body.industry}
  /\ \A k \in 1..10 :
       Cardinality(Positions(p, [kind |-> "lit", text |-> TenHeaders[k], value |-> Missing])) = 1
  /\ \A k \in 1..9 :
       Position(p, [kind |-> "lit", text |-> TenHeaders[k], value |-> Missing])
         < Position(p, [kind |-> "lit", text |-> TenHeaders[k + 1], value |-> Missing])

C12_PromptVerbatim ==
  /\ \A r \in Requests :
       pc[r] \in {"queued", "running"} =>
         /\ PromptCarries(prompt[r], input[r])
         /\ \A q \in Requests :
              (pc[q] \in {"queued", "running"} /\ input[q] = input[r]) => prompt[q] = prompt[r]
  /\ (Answered /\ sent.calls = 1) => PromptCarries(sent.prompt, sent.body)

C12_Witness ==
  \E r \in Requests :
    /\ pc[r] = "running"
    /\ input[r].idea = [present |-> TRUE, len |-> 1000]
    /\ input[r].industry = [present |-> TRUE, len |-> 100]
    /\ \E i \in 1..Len(prompt[r]) : prompt[r][i].value = [present |-> TRUE, len |-> 1000]

\* ----------------------------------------------------------------------
\* C13: when generate_content returns a candidate whose text cannot be read
\* (the attribute is missing, or reading it fails), the answer is 400 with
\* the "malformed response" detail.
\* ----------------------------------------------------------------------
TextUnreadable ==
  /\ Answered
  /\ sent.outcome.kind = "return"
  /\ sent.outcome.response.candidates >= 1
  /\ ~sent.outcome.response.has_text

C13_MalformedRejected ==
  TextUnreadable =>
    /\ sent.response.status = 400
    /\ sent.response.detail = << "AI service returned a malformed response." >>

\* C13 as amended: a candidate without a text attribute is answered 400 with
\* the "malformed response" detail; a candidate whose text accessor raises
\* ValueError is answered 400 with that error's own message; neither is
\* answered 503 or 500.
C13_UnreadableTextRejected ==
  TextUnreadable =>
    /\ sent.response.status = 400
    /\ sent.result.exc.type = "ValueError"
    /\ sent.outcome.response.text_error.type = "AttributeError" =>
         sent.response.detail = << "AI service returned a malformed response." >>
    /\ sent.outcome.response.text_error.type = "ValueError" =>
         sent.response.detail = sent.outcome.response.text_error.message

C13_Witness ==
  /\ TextUnreadable
  /\ sent.outcome.response.text_error.type = "AttributeError"
  /\ sent.response.status = 400
  /\ sent.response.detail = << "AI service returned a malformed response." >>

\* ----------------------------------------------------------------------
\* C14: once the process serves, no step changes the model handle or the
\* settings; every call in flight carries the same generation and safety
\* configuration; a step touches the state of at most one request; and two
\* exchanges completed one after the other with the same body and the same
\* remote outcome get the same response.
\* ----------------------------------------------------------------------
Local(r) == << pc[r], input[r], prompt[r], args[r], calls[r] >>

C14_HandleReadOnly ==
  [][ phase = "serving" =>
        /\ model' = model
        /\ apiKey' = apiKey
        /\ phase' = "serving"
        /\ \A r \in Requests :
             pc'[r] \in {"queued", "running"} =>
               /\ args'[r].set
               /\ args'[r].generation_config =
                    [temperature |-> "0.6", top_p |-> "0.95", top_k |-> 40,
                     max_output_tokens |-> 4096, candidate_count |-> 1]
               /\ \A c \in DOMAIN args'[r].safety_settings :
                    args'[r].safety_settings[c] = "BLOCK_MEDIUM_AND_ABOVE"
               /\ Cardinality(DOMAIN args'[r].safety_settings) = 4
        /\ \A r, q \in Requests :
             (Local(r)' # Local(r) /\ Local(q)' # Local(q)) => r = q
        /\ (sent.req # 0 /\ sent' # sent
              /\ sent'.body = sent.body /\ sent'.outcome = sent.outcome) =>
             sent'.response = sent.response ]_vars

C14_Witness ==
  /\ phase = "serving"
  /\ model = Handle
  /\ Answered
  /\ sent.outcome.kind = "raise"
  /\ sent.outcome.exc.type = "PermissionDenied"
  /\ sent.response.status = 503
  /\ \E r \in Requests : pc[r] = "running" /\ args[r].set
  /\ \E q \in Requests : q # sent.req /\ pc[q] = "done"

\* ----------------------------------------------------------------------
\* C15: what the real generate_startup_scope returns is never empty and has
\* no whitespace at either end, so the endpoint's empty-text branch is taken
\* only with a stubbed client; when it is taken the answer is 500 with the
\* generic detail, and no answer ever carries the "failed to generate
\* meaningful content" detail.
\* ----------------------------------------------------------------------
C15_DefensiveBranch ==
  /\ (Answered /\ sent.outcome.kind # "none" /\ sent.result.kind = "return") =>
       /\ sent.result.text # <<>>
       /\ sent.result.text[1] # " "
       /\ sent.result.text[Len(sent.result.text)] # " "
       /\ sent.response.status = 200
  /\ (Answered /\ sent.result.kind = "return" /\ AllSpace(sent.result.text)) =>
       /\ sent.outcome.kind = "none"
       /\ sent.response.status = 500
       /\ sent.response.detail =
            << "An unexpected internal server error occurred. The technical team has been notified." >>
  /\ Answered =>
       sent.response.detail # << "AI service (Gemini) failed to generate meaningful content." >>

C15_Witness ==
  /\ Answered
  /\ sent.result.kind = "return"
  /\ sent.result.text = <<" ">>
  /\ sent.response.status = 500

====
